---- MODULE Spec2Model ----
(***************************************************************************)
(* Model of deploy.py: the deployment script of the CWV in GA4 solution.   *)
(*                                                                         *)
(* main() is a sequential script.  Its position is pc; every remote call   *)
(* it issues is appended to calls, every function of deploy.py it invokes  *)
(* to stages.  The cloud project (transfer configs, IAM roles, IAM policy, *)
(* Eventarc triggers, the Cloud Run service) is the shared state the       *)
(* script acts on.                                                         *)
(*                                                                         *)
(* Strings are sequences of tokens (a token is a character or a word that  *)
(* the code never looks into); SP is the whitespace character str.strip()  *)
(* removes.  A Python value is a record [k, v]: its type and its text.     *)
(*                                                                         *)
(* The command line is fixed when the process starts.  main reads every    *)
(* option once before it writes it, so the value of an option is drawn at  *)
(* the statement that first reads it (until then the field is Unread);     *)
(* -g is drawn at parse_args, because argparse converts it there; -f and -c,*)
(* which main overwrites without reading them, are drawn along with -l.    *)
(* argc1 is len(sys.argv) == 1: no option was given, every option has its  *)
(* default.                                                                *)
(***************************************************************************)
EXTENDS Integers, Sequences, FiniteSets, TLC

VARIABLES
  pc,          \* position of the script
  caller,      \* "main": the installers are called by main(); "harness": called directly
  argc1,       \* len(sys.argv) == 1
  gaArg,       \* the text given to -g on the command line (PyNone: not given)
  args,        \* the argparse namespace
  cred,        \* what google.auth.default() returned
  stages,      \* functions of deploy.py invoked so far, in order
  calls,       \* remote calls issued so far, in order: [api, ok]
  exitStatus,  \* -1 while running, else the exit status of the process
  errMsg,      \* the message the process died with
  listings,    \* number of region listings done (get_gcp_regions)
  ncalls,      \* number of installer invocations made by the harness
  role,        \* add_roles_to_service_account: local variable role
  policy,      \* add_roles_to_service_account: local variable policy
  pending,     \* delete_scheduled_query: the configs still to iterate over
  prev,        \* harness: the invocation before the current one
  userSA,      \* main: local variable user_service_account
  configs,     \* cloud: BigQuery transfer configs
  nextId,      \* cloud: next transfer config id
  iamRoles,    \* cloud: names of the project's custom roles
  bindings,    \* cloud: the project IAM policy's bindings (a list)
  triggers,    \* cloud: regions holding a trigger cwv-alert-email-trigger
  service,     \* cloud: the Cloud Run service cwv-alerting-service
  asked,       \* main: the threshold prompts issued so far
  sourceDir,   \* deploy_cloudrun_alerter: what os.path.isdir(source_dir) answered
  runs         \* the runs of deploy_scheduled_materialize_query that share the project

vars == <<pc, caller, argc1, gaArg, args, cred, stages, calls, exitStatus, errMsg,
          listings, ncalls, role, policy, pending, prev, userSA, configs, nextId,
          iamRoles, bindings, triggers, service, asked, sourceDir, runs>>

marks == <<asked, sourceDir, runs>>
local == <<role, policy, pending>>
cloud == <<configs, nextId, iamRoles, bindings, triggers, service>>

----------------------------------------------------------------------------
(* Bounds *)

MaxPre == 2    \* scheduled queries named like ours that exist before the run
MaxList == 1   \* times the user answers "list" to the region prompt
MaxCalls == 3  \* installer invocations of the harness
MaxRuns == 3   \* runs the two concurrent operators start between them

----------------------------------------------------------------------------
(* Strings and Python values *)

SP == " "
Digits == {"0", "1", "2", "5"}

RECURSIVE LStrip(_)
LStrip(s) == IF s # <<>> /\ Head(s) = SP THEN LStrip(Tail(s)) ELSE s

RECURSIVE RStrip(_)
RStrip(s) == IF s # <<>> /\ s[Len(s)] = SP THEN RStrip(SubSeq(s, 1, Len(s) - 1)) ELSE s

\* str.strip()
Strip(s) == RStrip(LStrip(s))

\* str.isdigit(): false for the empty string
IsDigit(s) == Len(s) > 0 /\ \A i \in 1..Len(s) : s[i] \in Digits

\* str.endswith(suffix)
EndsWith(s, suffix) ==
  /\ Len(suffix) <= Len(s)
  /\ SubSeq(s, Len(s) - Len(suffix) + 1, Len(s)) = suffix

PyNone == [k |-> "none", v |-> <<>>]
PyStr(s) == [k |-> "str", v |-> s]
PyInt(s) == [k |-> "int", v |-> s]
PyFloat(s) == [k |-> "float", v |-> s]
PyBool(b) == [k |-> "bool", v |-> IF b THEN <<"True">> ELSE <<"False">>]
Unread == [k |-> "unread", v |-> <<>>]

\* Python truth value of x, negated: `not x`
Falsy(x) ==
  \/ x.k = "none"
  \/ x.k = "str" /\ x.v = <<>>
  \/ x.k = "int" /\ x.v = <<"0">>
  \/ x.k = "bool" /\ x.v = <<"False">>

\* f'{x}'
Format(x) == IF x.k = "none" THEN <<"None">> ELSE x.v

\* int(text) as argparse applies it to -g: an optional sign and digits, leading
\* zeros dropped; anything else is a ValueError (ok = FALSE)
RECURSIVE DropZeros(_)
DropZeros(s) == IF Len(s) > 1 /\ Head(s) = "0" THEN DropZeros(Tail(s)) ELSE s

ParseInt(s) ==
  IF IsDigit(s) THEN [ok |-> TRUE, val |-> PyInt(DropZeros(s))]
  ELSE IF s # <<>> /\ Head(s) = "-" /\ IsDigit(Tail(s))
         THEN [ok |-> TRUE,
               val |-> PyInt(IF DropZeros(Tail(s)) = <<"0">> THEN <<"0">>
                             ELSE <<"-">> \o DropZeros(Tail(s)))]
         ELSE [ok |-> FALSE, val |-> PyNone]

----------------------------------------------------------------------------
(* Names the script fixes, and the inputs of the model *)

DisplayName == "Update Web Vitals Summary"
OtherDisplayName == "Another scheduled query"
RoleId == <<"cwv_in_ga4_deployer">>
RoleName == <<"projects/p/roles/">> \o RoleId
OtherRoleName == <<"projects/p/roles/", "reader">>
LookalikeRoleName == <<"projects/p/roles/", "old_", "cwv_in_ga4_deployer">>
NoRole == <<>>

US == <<"us-central1">>
EU == <<"europe-west1">>
ListWord == <<"list">>
FlagSA == <<"flag-sa@p">>
DefaultSA == <<"compute-default@p">>
NamedSA == <<"adc-sa@p">>

\* what the user may give to -g, and the values another option may be given
GaArgs == {PyNone, PyStr(<<"1", "2">>), PyStr(<<"0">>), PyStr(<<"a">>), PyStr(<<"-", "5">>)}
Option(values) == IF argc1 THEN {PyNone} ELSE {PyNone} \cup values

\* what the user may type at a prompt
RegionAnswers == {<<>>, <<SP>>, US, <<SP>> \o US \o <<SP>>, ListWord}
GaAnswers == {<<>>, <<"1", "2">>, <<"1", "2", SP>>, <<"1", "a">>}
SaAnswers == {<<>>, <<SP>>, <<"typed-sa@p">>}
ServerAnswers == {<<>>, <<SP>>, <<"smtp.example">>}
FieldAnswers == {<<>>, <<"x">>}
ThresholdAnswers == {<<>>, <<"1800">>}

\* what google.auth.default() may return: credentials without a
\* service_account_email attribute, the compute-engine placeholder 'default',
\* or those of a named service account
CredKinds == {"no_sa_email", "default", "named"}

Fields == {"ga_property", "region", "lcp_threshold", "fid_threshold", "cls_threshold",
           "email_server", "email_user", "email_password", "email_from",
           "alert_recipients", "iam_service_account", "email_alert"}

NoCall == [fn |-> "none", region |-> <<>>, sa |-> <<>>, ok |-> FALSE]

\* the runs that share the project, before any of them has started
Racers == {1, 2}
NoRuns == [p \in Racers |-> [pc |-> "idle", pending |-> <<>>, made |-> {},
                             removed |-> {}, started |-> 0]]
NoService == [deployed |-> FALSE, region |-> <<>>, env |-> <<>>]

\* the transfer configs of the project that are none of ours: another scheduled
\* query of the region, a scheduled query of our name in another region, and a
\* transfer of another data source that has our name
Bystanders ==
  { [id |-> MaxPre + 1, display |-> OtherDisplayName, source |-> "scheduled_query", region |-> US],
    [id |-> MaxPre + 2, display |-> DisplayName, source |-> "scheduled_query", region |-> EU],
    [id |-> MaxPre + 3, display |-> DisplayName, source |-> "google_ads", region |-> US] }

\* k earlier scheduled queries of our name in the region
Earlier(k) ==
  { [id |-> i, display |-> DisplayName, source |-> "scheduled_query", region |-> US] : i \in 1..k }

InitCloudWith(roles) ==
  /\ \E k \in 0..MaxPre : configs = Bystanders \cup Earlier(k)
  /\ nextId = MaxPre + 4
  /\ iamRoles = roles
  /\ bindings = << [role |-> <<"roles/owner">>, members |-> <<"user:admin">>] >>
  /\ triggers = {}
  /\ service = NoService

\* the project of a run of main: no custom role of the solution yet
InitCloud == InitCloudWith({OtherRoleName})

\* the custom roles a project may hold when the installers are invoked
InstallRoles == {{OtherRoleName}, {OtherRoleName, LookalikeRoleName}}

InitLocal ==
  /\ args = [f \in Fields |-> Unread]
  /\ cred = "unset"
  /\ stages = <<>>
  /\ calls = <<>>
  /\ exitStatus = -1
  /\ errMsg = "none"
  /\ listings = 0
  /\ ncalls = 0
  /\ role = NoRole
  /\ policy = <<>>
  /\ pending = <<>>
  /\ prev = NoCall
  /\ userSA = Unread
  /\ asked = {}
  /\ sourceDir = "unchecked"
  /\ runs = NoRuns

Init ==
  /\ pc = "parse_args"
  /\ caller = "main"
  /\ argc1 \in BOOLEAN
  /\ gaArg \in (IF argc1 THEN {PyNone} ELSE GaArgs)
  /\ InitLocal
  /\ InitCloud

----------------------------------------------------------------------------
(* Control *)

\* the process dies: SystemExit(message) and an uncaught exception both end
\* it with status 1, argparse's error() with status 2
Abort(status, msg) ==
  /\ pc' = "aborted"
  /\ exitStatus' = status
  /\ errMsg' = msg

Goto(next) ==
  /\ pc' = next
  /\ UNCHANGED <<exitStatus, errMsg>>

\* a remote call is issued and answers (ok) or raises; at: how many functions of
\* deploy.py had been invoked when it was issued (the last one is issuing it)
IssueAt(api, ok, n) == calls' = Append(calls, [api |-> api, ok |-> ok, at |-> n])
Issue(api, ok) == IssueAt(api, ok, Len(stages))

\* a function of deploy.py is invoked
Invoke(fn) == stages' = Append(stages, fn)

\* where a function of deploy.py returns to
ReturnTo(next) == IF caller = "main" THEN next ELSE "idle"

----------------------------------------------------------------------------
(* main(): the command line, the credentials, the platform services *)

\* arg_parser.parse_args(): -g has type=int, so argparse turns its text into an
\* int or ends the process (usage error, status 2)
ParseArgs ==
  /\ pc = "parse_args"
  /\ LET r == IF gaArg = PyNone THEN [ok |-> TRUE, val |-> PyNone] ELSE ParseInt(gaArg.v)
     IN  IF r.ok
           THEN /\ args' = [args EXCEPT !.ga_property = r.val]
                /\ Goto("auth_default")
           ELSE /\ Abort(2, "argument -g/--ga-property: invalid int value")
                /\ UNCHANGED args
  /\ UNCHANGED <<caller, argc1, gaArg, cred, stages, calls, listings, ncalls, prev, userSA, marks, local, cloud>>

\* google.auth.default(), the GOOGLE_CLOUD_PROJECT fallback (a KeyError when the
\* variable is not set), then the call of enable_services
AuthDefault ==
  /\ pc = "auth_default"
  /\ \E c \in CredKinds, project \in {"found", "missing"} :
       IF project = "found"
         THEN /\ cred' = c
              /\ Invoke("enable_services")
              /\ Goto("es_get_project")
         ELSE /\ Abort(1, "KeyError: GOOGLE_CLOUD_PROJECT")
              /\ UNCHANGED <<cred, stages>>
  /\ UNCHANGED <<caller, argc1, gaArg, args, calls, listings, ncalls, prev, userSA, marks, local, cloud>>

\* enable_services: crm.projects().get(...).execute()
EsGetProject ==
  /\ pc = "es_get_project"
  /\ \E ok \in BOOLEAN :
       /\ Issue("cloudresourcemanager.projects.get", ok)
       /\ IF ok THEN Goto("es_batch_enable") ELSE Abort(1, "uncaught exception")
  /\ UNCHANGED <<caller, argc1, gaArg, args, cred, stages, listings, ncalls, prev, userSA, marks, local, cloud>>

\* enable_services: batch_enable_services and operation.result(); a failure is
\* turned into SystemExit
EsBatchEnable ==
  /\ pc = "es_batch_enable"
  /\ \E ok \in BOOLEAN :
       /\ Issue("serviceusage.batchEnableServices", ok)
       /\ IF ok THEN Goto("region")
                ELSE Abort(1, "Unable to enable the required services")
  /\ UNCHANGED <<caller, argc1, gaArg, args, cred, stages, listings, ncalls, prev, userSA, marks, local, cloud>>

----------------------------------------------------------------------------
(* main(): region, property, service account *)

RegionAnswersNow ==
  IF listings < MaxList THEN RegionAnswers ELSE RegionAnswers \ {ListWord}

\* if not args.region: args.region = input(...).strip()
ResolveRegion ==
  /\ pc = "region"
  /\ \E f \in Option({PyStr(US)}) :
       IF Falsy(f)
         THEN \E a \in RegionAnswersNow :
                /\ args' = [args EXCEPT !.region = PyStr(Strip(a))]
                /\ Goto(IF Strip(a) = ListWord THEN "region_list" ELSE "ga_property")
         ELSE /\ args' = [args EXCEPT !.region = f]
              /\ Goto("ga_property")
  /\ UNCHANGED <<caller, argc1, gaArg, cred, stages, calls, listings, ncalls, prev, userSA, marks, local, cloud>>

\* while args.region == 'list': get_gcp_regions, print, ask again
RegionList ==
  /\ pc = "region_list"
  /\ Invoke("get_gcp_regions")
  /\ listings' = listings + 1
  /\ \E ok \in BOOLEAN :
       /\ IssueAt("compute.regions.list", ok, Len(stages) + 1)
       /\ IF ok
            THEN \E a \in (IF listings' < MaxList THEN RegionAnswers
                                                  ELSE RegionAnswers \ {ListWord}) :
                   /\ args' = [args EXCEPT !.region = PyStr(Strip(a))]
                   /\ Goto(IF Strip(a) = ListWord THEN "region_list" ELSE "ga_property")
            ELSE /\ Abort(1, "uncaught exception")
                 /\ UNCHANGED args
  /\ UNCHANGED <<caller, argc1, gaArg, cred, ncalls, prev, userSA, marks, local, cloud>>

\* if not args.ga_property: ask, and accept digits only
ResolveProperty ==
  /\ pc = "ga_property"
  /\ IF Falsy(args.ga_property)
       THEN \E a \in GaAnswers :
              /\ args' = [args EXCEPT !.ga_property = PyStr(Strip(a))]
              /\ IF IsDigit(Strip(a))
                   THEN Goto("iam")
                   ELSE Abort(1, "Only GA4 properties are supported at this time.")
       ELSE /\ Goto("iam")
            /\ UNCHANGED args
  /\ UNCHANGED <<caller, argc1, gaArg, cred, stages, calls, listings, ncalls, prev, userSA, marks, local, cloud>>

\* mutant: main goes on to the stored procedure without the scheduled query
CallProcedureInstead ==
  /\ Invoke("deploy_p75_procedure")
  /\ Goto("p75")

\* deploy_scheduled_materialize_query(project_id, credentials, args.region, ...)
CallDeployQuery ==
  /\ Invoke("deploy_scheduled_materialize_query")
  /\ Goto("sq_list")

\* if not args.iam_service_account: take the account of the credentials (looked
\* up when it is the placeholder 'default'); else go on to the scheduled query
ResolveServiceAccount ==
  /\ pc = "iam"
  /\ \E f \in Option({PyStr(FlagSA)}) :
       IF ~Falsy(f)
         THEN /\ args' = [args EXCEPT !.iam_service_account = f]
              /\ CallDeployQuery
         ELSE IF cred = "default"
           THEN /\ args' = [args EXCEPT !.iam_service_account = f]
                /\ Invoke("get_default_service_account_email")
                /\ Goto("sa_lookup")
           ELSE /\ args' = [args EXCEPT !.iam_service_account =
                              IF cred = "named" THEN PyStr(NamedSA) ELSE f]
                /\ UNCHANGED stages
                /\ Goto("iam_prompt")
  /\ UNCHANGED <<caller, argc1, gaArg, cred, calls, listings, ncalls, prev, userSA, marks, local, cloud>>

\* get_default_service_account_email: the email of the first account whose
\* display name contains 'default', '' when there is none
SaLookup ==
  /\ pc = "sa_lookup"
  /\ \E ok \in BOOLEAN :
       /\ Issue("iam.serviceAccounts.list", ok)
       /\ IF ok
            THEN \E found \in {DefaultSA, <<>>} :
                   /\ args' = [args EXCEPT !.iam_service_account = PyStr(found)]
                   /\ Goto("iam_prompt")
            ELSE /\ Abort(1, "uncaught exception")
                 /\ UNCHANGED args
  /\ UNCHANGED <<caller, argc1, gaArg, cred, stages, listings, ncalls, prev, userSA, marks, local, cloud>>

\* mutant: main goes on to the scheduled query without the grant
SkipAddRoles == CallDeployQuery

\* add_roles_to_service_account(args.iam_service_account, project_id, credentials)
CallAddRoles ==
  /\ Invoke("add_roles_to_service_account")
  /\ Goto("roles_list")

\* user_service_account = input(...).strip(); nothing typed: grant the role to
\* args.iam_service_account; something typed: SystemExit
IamPrompt ==
  /\ pc = "iam_prompt"
  /\ \E a \in SaAnswers :
       /\ userSA' = PyStr(Strip(a))
       /\ IF Falsy(userSA')
            THEN CallAddRoles
            ELSE /\ Abort(1, "You must provide a service account")
                 /\ UNCHANGED stages
  /\ UNCHANGED <<caller, argc1, gaArg, args, cred, calls, listings, ncalls, prev, marks, local, cloud>>

\* control returns from an installer: to main's next statement (the end of main
\* is exit status 0), or to the harness
Return(next) ==
  IF caller = "main" /\ next = "done"
    THEN pc' = "done" /\ exitStatus' = 0 /\ UNCHANGED errMsg
    ELSE Goto(ReturnTo(next))

----------------------------------------------------------------------------
(* add_roles_to_service_account *)

\* mutant: no role of the listing is recognised
IsDeployerRoleNever(r) == FALSE

\* for r in current_roles: if r['name'].endswith('cwv_in_ga4_deployer')
IsDeployerRole(r) == EndsWith(r, RoleId)

\* roles().list(), then the search for the role
RolesList ==
  /\ pc = "roles_list"
  /\ \E ok \in BOOLEAN :
       /\ Issue("iam.roles.list", ok)
       /\ IF ok
            THEN IF \E r \in iamRoles : IsDeployerRole(r)
                   THEN /\ \E r \in iamRoles : IsDeployerRole(r) /\ role' = r
                        /\ Goto("policy_get")
                   ELSE /\ role' = NoRole
                        /\ Goto("roles_create")
            ELSE /\ Abort(1, "uncaught exception")
                 /\ UNCHANGED role
  /\ UNCHANGED <<caller, argc1, gaArg, args, cred, stages, listings, ncalls, prev, userSA, marks,
                 policy, pending, cloud>>

\* if not role: role = roles().create(...); if not role: raise SystemExit
RolesCreate ==
  /\ pc = "roles_create"
  /\ \E ok \in (IF RoleName \in iamRoles THEN {FALSE} ELSE BOOLEAN) :
       /\ Issue("iam.roles.create", ok)
       /\ IF ok
            THEN /\ iamRoles' = iamRoles \cup {RoleName}
                 /\ role' = RoleName
                 /\ IF role' = NoRole
                      THEN Abort(1, "There was an issue trying to create the role")
                      ELSE Goto("policy_get")
            ELSE /\ Abort(1, "uncaught exception")
                 /\ UNCHANGED <<iamRoles, role>>
  /\ UNCHANGED <<caller, argc1, gaArg, args, cred, stages, listings, ncalls, prev, userSA, marks,
                 policy, pending, configs, nextId, bindings, triggers, service>>

\* policy = getIamPolicy(...)
PolicyGet ==
  /\ pc = "policy_get"
  /\ \E ok \in BOOLEAN :
       /\ Issue("cloudresourcemanager.getIamPolicy", ok)
       /\ IF ok
            THEN /\ policy' = bindings
                 /\ Goto("policy_set")
            ELSE /\ Abort(1, "uncaught exception")
                 /\ UNCHANGED policy
  /\ UNCHANGED <<caller, argc1, gaArg, args, cred, stages, listings, ncalls, prev, userSA, marks,
                 role, pending, cloud>>

\* policy['bindings'].append({'role': ..., 'members': [f'serviceAccount:{...}']})
NewBinding ==
  [role |-> role,
   members |-> <<"serviceAccount:">> \o Format(args.iam_service_account)]

\* the append, then setIamPolicy(...)
PolicySet ==
  /\ pc = "policy_set"
  /\ policy' = Append(policy, NewBinding)
  /\ \E ok \in BOOLEAN :
       /\ Issue("cloudresourcemanager.setIamPolicy", ok)
       /\ IF ok
            THEN /\ bindings' = policy'
                 /\ IF caller = "main"
                      THEN CallDeployQuery
                      ELSE /\ UNCHANGED stages
                           /\ Goto("idle")
            ELSE /\ Abort(1, "uncaught exception")
                 /\ UNCHANGED <<bindings, stages>>
  /\ UNCHANGED <<caller, argc1, gaArg, args, cred, listings, ncalls, prev, userSA, marks,
                 role, pending, configs, nextId, iamRoles, triggers, service>>

----------------------------------------------------------------------------
(* delete_scheduled_query, deploy_scheduled_materialize_query *)

RECURSIVE SortById(_)
SortById(S) ==
  IF S = {} THEN <<>>
  ELSE LET m == CHOOSE c \in S : \A d \in S : c.id <= d.id
       IN  <<m>> \o SortById(S \ {m})

\* mutant: only the first config of the listing is looked at
ListedFirstOnly(region) ==
  LET all == SortById({c \in configs : c.region = region /\ c.source = "scheduled_query"})
  IN  IF all = <<>> THEN <<>> ELSE <<Head(all)>>

\* list_transfer_configs(parent = project and region, data_source_ids = ['scheduled_query'])
Listed(region) ==
  SortById({c \in configs : c.region = region /\ c.source = "scheduled_query"})

\* mutant: the display name is compared with the wrong field of the config
NameMatchesWrongField(c, display) == c.source = display

\* mutant: every config of the listing is taken for one of the name
NameMatchesAny(c, display) == TRUE

\* if config.display_name == display_name
NameMatches(c, display) == c.display = display

\* the scheduled queries of a region that carry the display name
Named(display, region) ==
  {c \in configs : c.region = region /\ c.source = "scheduled_query" /\ c.display = display}

TheRegion == Format(args.region)

\* delete_scheduled_query: configs = list_transfer_configs(...)
SqList ==
  /\ pc = "sq_list"
  /\ \E ok \in BOOLEAN :
       /\ Issue("bigquerydatatransfer.listTransferConfigs", ok)
       /\ IF ok
            THEN /\ pending' = Listed(TheRegion)
                 /\ Goto("sq_delete")
            ELSE /\ Abort(1, "uncaught exception")
                 /\ UNCHANGED pending
  /\ UNCHANGED <<caller, argc1, gaArg, args, cred, stages, listings, ncalls, prev, userSA, marks,
                 role, policy, cloud>>

\* mutant: the delete call leaves the config where it is
WithoutNothing(c) == configs

\* delete_transfer_config(name=config.name)
Without(c) == configs \ {c}

\* delete_scheduled_query: one turn of `for config in configs`
SqDeleteNext ==
  /\ pc = "sq_delete"
  /\ pending # <<>>
  /\ LET c == Head(pending)
     IN  IF NameMatches(c, DisplayName)
           THEN \E ok \in (IF c \in configs THEN BOOLEAN ELSE {FALSE}) :
                  /\ Issue("bigquerydatatransfer.deleteTransferConfig", ok)
                  /\ IF ok
                       THEN /\ configs' = Without(c)
                            /\ pending' = Tail(pending)
                            /\ Goto("sq_delete")
                       ELSE /\ Abort(1, "uncaught exception")
                            /\ UNCHANGED <<configs, pending>>
           ELSE /\ pending' = Tail(pending)
                /\ Goto("sq_delete")
                /\ UNCHANGED <<calls, configs>>
  /\ UNCHANGED <<caller, argc1, gaArg, args, cred, stages, listings, ncalls, prev, userSA, marks,
                 role, policy, nextId, iamRoles, bindings, triggers, service>>

\* mutant: the config is created under another display name
NewConfigUnnamed(id, region) ==
  [id |-> id, display |-> OtherDisplayName, source |-> "scheduled_query", region |-> region]

\* the transfer config create_transfer_config makes: display_name and
\* data_source_id as given, under the parent of the region
NewConfig(id, region) ==
  [id |-> id, display |-> DisplayName, source |-> "scheduled_query", region |-> region]

\* the loop is over: create_transfer_config(...)
SqCreate ==
  /\ pc = "sq_delete"
  /\ pending = <<>>
  /\ \E ok \in BOOLEAN :
       /\ Issue("bigquerydatatransfer.createTransferConfig", ok)
       /\ IF ok
            THEN /\ configs' = configs \cup {NewConfig(nextId, TheRegion)}
                 /\ nextId' = nextId + 1
                 /\ Goto("sq_sleep")
            ELSE /\ Abort(1, "uncaught exception")
                 /\ UNCHANGED <<configs, nextId>>
  /\ UNCHANGED <<caller, argc1, gaArg, args, cred, stages, listings, ncalls, prev, userSA, marks,
                 local, iamRoles, bindings, triggers, service>>

\* time.sleep(30), and the return
SqSleep ==
  /\ pc = "sq_sleep"
  /\ Return("email_alert")
  /\ UNCHANGED <<caller, argc1, gaArg, args, cred, stages, calls, listings, ncalls,
                 prev, userSA, marks, local, cloud>>

----------------------------------------------------------------------------
(* main(): the email alerting options *)

\* mutant: --no-email-alert is ignored
AlertingAlways(flag) == TRUE

\* if args.email_alert:
AlertingWanted(flag) == ~Falsy(flag)

\* --email-alert / --no-email-alert (default True), and the test of it
EmailAlert ==
  /\ pc = "email_alert"
  /\ \E f \in (IF argc1 THEN {TRUE} ELSE BOOLEAN) :
       /\ args' = [args EXCEPT !.email_alert = PyBool(f)]
       /\ IF AlertingWanted(PyBool(f))
            THEN Goto("email_server")
            ELSE pc' = "done" /\ exitStatus' = 0 /\ UNCHANGED errMsg
  /\ UNCHANGED <<caller, argc1, gaArg, cred, stages, calls, listings, ncalls, prev, userSA, marks, local, cloud>>

\* if not args.<field>: args.<field> = input(...).strip()
Resolved(given, answer) == IF Falsy(given) THEN PyStr(Strip(answer)) ELSE given

\* the email server, and `if args.email_server:`
ResolveEmailServer ==
  /\ pc = "email_server"
  /\ \E f \in Option({PyStr(<<"smtp.example">>)}), a \in ServerAnswers :
       /\ args' = [args EXCEPT !.email_server = Resolved(f, a)]
       /\ IF ~Falsy(Resolved(f, a))
            THEN /\ Goto("email_user")
                 /\ UNCHANGED stages
            ELSE /\ Invoke("deploy_p75_procedure")
                 /\ Goto("p75")
  /\ UNCHANGED <<caller, argc1, gaArg, cred, calls, listings, ncalls, prev, userSA, marks, local, cloud>>

ResolveField(here, field, next) ==
  /\ pc = here
  /\ \E f \in Option({PyStr(<<"x">>)}), a \in FieldAnswers :
       args' = [args EXCEPT ![field] = Resolved(f, a)]
  /\ Goto(next)
  /\ UNCHANGED <<caller, argc1, gaArg, cred, stages, calls, listings, ncalls, prev, userSA, marks, local, cloud>>

ResolveEmailUser == ResolveField("email_user", "email_user", "email_password")
ResolveEmailPassword == ResolveField("email_password", "email_password", "email_from")
ResolveEmailFrom == ResolveField("email_from", "email_from", "alert_recipients")
ResolveAlertRecipients == ResolveField("alert_recipients", "alert_recipients", "lcp")

\* what a threshold option holds when main reads it: its default, or the text given
LcpDefault == PyInt(<<"2500">>)
FidDefault == PyInt(<<"100">>)
ClsDefault == PyFloat(<<"0.1">>)
LcpOption == IF argc1 THEN {LcpDefault} ELSE {LcpDefault, PyStr(<<"3000">>)}
FidOption == IF argc1 THEN {FidDefault} ELSE {FidDefault, PyStr(<<"200">>)}
ClsOption == IF argc1 THEN {ClsDefault} ELSE {ClsDefault, PyStr(<<"0.25">>)}

\* if len(sys.argv) == 1: args.lcp_threshold = input(...).strip()
\* if not args.lcp_threshold: args.lcp_threshold = 2055
ResolveLcp ==
  /\ pc = "lcp"
  /\ \E f \in LcpOption, ff \in FidOption, cf \in ClsOption, a \in ThresholdAnswers :
       LET given == IF argc1 THEN PyStr(Strip(a)) ELSE f
       IN  args' = [args EXCEPT !.lcp_threshold =
                                  IF Falsy(given) THEN PyInt(<<"2055">>) ELSE given,
                                !.fid_threshold = ff,
                                !.cls_threshold = cf]
  /\ asked' = IF argc1 THEN asked \cup {"lcp"} ELSE asked
  /\ Goto("fid")
  /\ UNCHANGED <<caller, argc1, gaArg, cred, stages, calls, listings, ncalls, prev, userSA,
                 sourceDir, runs, local, cloud>>

\* args.fid_threshold = input(...).strip()
\* if not args.fid_threshold: args.fid_threshold = 100
ResolveFid ==
  /\ pc = "fid"
  /\ \E a \in ThresholdAnswers :
       LET given == PyStr(Strip(a))
       IN  args' = [args EXCEPT !.fid_threshold =
                      IF Falsy(given) THEN PyInt(<<"100">>) ELSE given]
  /\ asked' = asked \cup {"fid"}
  /\ Goto("cls")
  /\ UNCHANGED <<caller, argc1, gaArg, cred, stages, calls, listings, ncalls, prev, userSA,
                 sourceDir, runs, local, cloud>>

\* args.cls_threshold = input(...).strip()
\* if not args.cls_threshold: args.cls_threshold = 0.1
\* and the call of deploy_p75_procedure
ResolveCls ==
  /\ pc = "cls"
  /\ \E a \in ThresholdAnswers :
       LET given == PyStr(Strip(a))
       IN  args' = [args EXCEPT !.cls_threshold =
                      IF Falsy(given) THEN PyFloat(<<"0.1">>) ELSE given]
  /\ asked' = asked \cup {"cls"}
  /\ Invoke("deploy_p75_procedure")
  /\ Goto("p75")
  /\ UNCHANGED <<caller, argc1, gaArg, cred, calls, listings, ncalls, prev, userSA,
                 sourceDir, runs, local, cloud>>

----------------------------------------------------------------------------
(* deploy_p75_procedure, deploy_cloudrun_alerter, create_cloudrun_trigger *)

\* mutant: the service is deployed whether or not there is an email server
AlerterAlways == TRUE

\* if args.email_server: (the one after deploy_p75_procedure)
AlerterWanted == ~Falsy(args.email_server)

\* bq_client.query(...) and query_job.result(); then `if args.email_server:`
DeployP75 ==
  /\ pc = "p75"
  /\ \E ok \in BOOLEAN :
       /\ Issue("bigquery.query", ok)
       /\ IF ok
            THEN IF AlerterWanted
                   THEN /\ Invoke("deploy_cloudrun_alerter")
                        /\ Goto("alerter")
                   ELSE /\ pc' = "done" /\ exitStatus' = 0 /\ UNCHANGED errMsg
                        /\ UNCHANGED stages
            ELSE /\ Abort(1, "uncaught exception")
                 /\ UNCHANGED stages
  /\ UNCHANGED <<caller, argc1, gaArg, args, cred, listings, ncalls, prev, userSA, marks, local, cloud>>

\* the environment of the service
EnvVars ==
  [ANALYTICS_ID |-> Format(args.ga_property),
   GOOD_LCP |-> Format(args.lcp_threshold),
   GOOD_CLS |-> Format(args.cls_threshold),
   GOOD_FID |-> Format(args.fid_threshold),
   EMAIL_SERVER |-> Format(args.email_server),
   EMAIL_USER |-> Format(args.email_user),
   EMAIL_PASS |-> Format(args.email_password),
   EMAIL_FROM |-> Format(args.email_from),
   ALERT_RECEIVERS |-> Format(args.alert_recipients)]

\* mutant: the directory is not looked for
SourceNeverMissing(isdir) == FALSE

\* if not os.path.isdir(source_dir):
SourceMissing(isdir) == ~isdir

\* the check of the notifications directory: raise SystemExit when it is missing
AlerterSource ==
  /\ pc = "alerter"
  /\ \E isdir \in BOOLEAN :
       /\ sourceDir' = IF isdir THEN "present" ELSE "missing"
       /\ IF SourceMissing(isdir)
            THEN Abort(1, "Please ensure the deploy script is in the distribution directory")
            ELSE Goto("alerter_deploy")
  /\ UNCHANGED <<caller, argc1, gaArg, args, cred, stages, calls, listings, ncalls,
                 prev, userSA, asked, runs, local, cloud>>

\* mutant: the failure of gcloud is swallowed and main goes on
AlerterFailureIgnored == Goto("trigger_delete")

\* except subprocess.CalledProcessError: raise SystemExit(...)
AlerterFailed == Abort(1, "Deploying the email alerting function failed")

\* gcloud run deploy cwv-alerting-service; then the call of create_cloudrun_trigger
AlerterDeploy ==
  /\ pc = "alerter_deploy"
  /\ \E ok \in BOOLEAN :
       /\ Issue("gcloud.run.deploy", ok)
       /\ IF ok
            THEN /\ service' = [deployed |-> TRUE, region |-> TheRegion, env |-> EnvVars]
                 /\ Invoke("create_cloudrun_trigger")
                 /\ Goto("trigger_delete")
            ELSE /\ AlerterFailed
                 /\ UNCHANGED <<service, stages>>
  /\ UNCHANGED <<caller, argc1, gaArg, args, cred, listings, ncalls, prev, userSA, marks, local,
                 configs, nextId, iamRoles, bindings, triggers>>

\* eventarc_client.delete_trigger(name=trigger_name, allow_missing=True)
TriggerDelete ==
  /\ pc = "trigger_delete"
  /\ \E ok \in BOOLEAN :
       /\ Issue("eventarc.deleteTrigger", ok)
       /\ IF ok
            THEN /\ triggers' = triggers \ {TheRegion}
                 /\ Goto("trigger_create")
            ELSE /\ Abort(1, "uncaught exception")
                 /\ UNCHANGED triggers
  /\ UNCHANGED <<caller, argc1, gaArg, args, cred, stages, listings, ncalls, prev, userSA, marks, local,
                 configs, nextId, iamRoles, bindings, service>>

\* eventarc_client.create_trigger(...); any exception becomes SystemExit
TriggerCreate ==
  /\ pc = "trigger_create"
  /\ \E ok \in (IF TheRegion \in triggers THEN {FALSE} ELSE BOOLEAN) :
       /\ Issue("eventarc.createTrigger", ok)
       /\ IF ok
            THEN /\ triggers' = triggers \cup {TheRegion}
                 /\ Return("done")
            ELSE /\ Abort(1, "The event trigger was not created")
                 /\ UNCHANGED triggers
  /\ UNCHANGED <<caller, argc1, gaArg, args, cred, stages, listings, ncalls, prev, userSA, marks, local,
                 configs, nextId, iamRoles, bindings, service>>

----------------------------------------------------------------------------
(* The installers invoked one after another, outside main *)

HarnessRegions == {US, EU}
HarnessAccounts == {DefaultSA, NamedSA}

\* the invocation that has just ended, as the next one remembers it
Ended ==
  IF stages = <<>> THEN NoCall
  ELSE [fn |-> stages[1], region |-> TheRegion,
        sa |-> Format(args.iam_service_account), ok |-> pc = "idle"]

HarnessInvoke(fn, first) ==
  /\ caller = "harness"
  /\ pc \in {"idle", "aborted"}
  /\ ncalls < MaxCalls
  /\ ncalls' = ncalls + 1
  /\ prev' = Ended
  /\ \E r \in HarnessRegions, a \in HarnessAccounts :
       args' = [args EXCEPT !.region = PyStr(r), !.iam_service_account = PyStr(a)]
  /\ stages' = <<fn>>
  /\ calls' = <<>>
  /\ pc' = first
  /\ exitStatus' = -1
  /\ errMsg' = "none"
  /\ role' = NoRole
  /\ policy' = <<>>
  /\ pending' = <<>>
  /\ UNCHANGED <<caller, argc1, gaArg, cred, listings, userSA, marks, cloud>>

HarnessAddRoles == HarnessInvoke("add_roles_to_service_account", "roles_list")
HarnessDeployQuery == HarnessInvoke("deploy_scheduled_materialize_query", "sq_list")
HarnessCreateTrigger == HarnessInvoke("create_cloudrun_trigger", "trigger_delete")

----------------------------------------------------------------------------
(* Two operators run deploy_scheduled_materialize_query against the same   *)
(* project and region at the same time.  Each has its own position and its *)
(* own listing; the transfer configs are shared.  Every remote call is one *)
(* step, so the calls of the two runs interleave in any order.             *)

RaceRegion == US

Started == runs[1].started + runs[2].started

\* an operator starts the script (again)
RaceStart(p) ==
  /\ runs[p].pc \in {"idle", "aborted"}
  /\ Started < MaxRuns
  /\ runs' = [runs EXCEPT ![p].pc = "sq_list", ![p].pending = <<>>,
                          ![p].started = @ + 1]
  /\ UNCHANGED <<pc, caller, argc1, gaArg, args, cred, stages, calls, exitStatus, errMsg,
                 listings, ncalls, prev, userSA, asked, sourceDir, local, cloud>>

\* delete_scheduled_query: configs = list_transfer_configs(...)
RaceList(p) ==
  /\ runs[p].pc = "sq_list"
  /\ \E ok \in BOOLEAN :
       runs' = IF ok THEN [runs EXCEPT ![p].pc = "sq_delete",
                                       ![p].pending = Listed(RaceRegion)]
                     ELSE [runs EXCEPT ![p].pc = "aborted"]
  /\ UNCHANGED <<pc, caller, argc1, gaArg, args, cred, stages, calls, exitStatus, errMsg,
                 listings, ncalls, prev, userSA, asked, sourceDir, local, cloud>>

\* delete_scheduled_query: one turn of `for config in configs`; deleting a config
\* that is no longer there raises
RaceDeleteNext(p) ==
  /\ runs[p].pc = "sq_delete"
  /\ runs[p].pending # <<>>
  /\ LET c == Head(runs[p].pending)
     IN  IF NameMatches(c, DisplayName)
           THEN \E ok \in (IF c \in configs THEN BOOLEAN ELSE {FALSE}) :
                  IF ok
                    THEN /\ configs' = Without(c)
                         /\ runs' = [runs EXCEPT ![p].pending = Tail(@),
                                                 ![p].removed = @ \cup {c.id}]
                    ELSE /\ runs' = [runs EXCEPT ![p].pc = "aborted"]
                         /\ UNCHANGED configs
           ELSE /\ runs' = [runs EXCEPT ![p].pending = Tail(@)]
                /\ UNCHANGED configs
  /\ UNCHANGED <<pc, caller, argc1, gaArg, args, cred, stages, calls, exitStatus, errMsg,
                 listings, ncalls, prev, userSA, asked, sourceDir, local,
                 nextId, iamRoles, bindings, triggers, service>>

\* the loop is over: create_transfer_config(...)
RaceCreate(p) ==
  /\ runs[p].pc = "sq_delete"
  /\ runs[p].pending = <<>>
  /\ \E ok \in BOOLEAN :
       IF ok
         THEN /\ configs' = configs \cup {NewConfig(nextId, RaceRegion)}
              /\ nextId' = nextId + 1
              /\ runs' = [runs EXCEPT ![p].pc = "sq_sleep", ![p].made = @ \cup {nextId}]
         ELSE /\ runs' = [runs EXCEPT ![p].pc = "aborted"]
              /\ UNCHANGED <<configs, nextId>>
  /\ UNCHANGED <<pc, caller, argc1, gaArg, args, cred, stages, calls, exitStatus, errMsg,
                 listings, ncalls, prev, userSA, asked, sourceDir, local,
                 iamRoles, bindings, triggers, service>>

\* time.sleep(30), and the return
RaceSleep(p) ==
  /\ runs[p].pc = "sq_sleep"
  /\ runs' = [runs EXCEPT ![p].pc = "idle"]
  /\ UNCHANGED <<pc, caller, argc1, gaArg, args, cred, stages, calls, exitStatus, errMsg,
                 listings, ncalls, prev, userSA, asked, sourceDir, local, cloud>>

----------------------------------------------------------------------------
(* Specifications *)

AddRoles == RolesList \/ RolesCreate \/ PolicyGet \/ PolicySet
DeployQuery == SqList \/ SqDeleteNext \/ SqCreate \/ SqSleep
CreateTrigger == TriggerDelete \/ TriggerCreate

Next ==
  \/ ParseArgs \/ AuthDefault \/ EsGetProject \/ EsBatchEnable
  \/ ResolveRegion \/ RegionList \/ ResolveProperty
  \/ ResolveServiceAccount \/ SaLookup \/ IamPrompt
  \/ AddRoles
  \/ DeployQuery
  \/ EmailAlert \/ ResolveEmailServer \/ ResolveEmailUser \/ ResolveEmailPassword
  \/ ResolveEmailFrom \/ ResolveAlertRecipients
  \/ ResolveLcp \/ ResolveFid \/ ResolveCls
  \/ DeployP75 \/ AlerterSource \/ AlerterDeploy
  \/ CreateTrigger

\* one run of main()
Spec == Init /\ [][Next]_vars

InitInstall ==
  /\ pc = "idle"
  /\ caller = "harness"
  /\ argc1 = FALSE
  /\ gaArg = PyStr(<<"1", "2">>)
  /\ InitLocal
  /\ \E roles \in InstallRoles : InitCloudWith(roles)

NextInstall ==
  \/ HarnessAddRoles \/ HarnessDeployQuery \/ HarnessCreateTrigger
  \/ AddRoles
  \/ DeployQuery
  \/ CreateTrigger

\* the installers run one after another against the same project
SpecInstall == InitInstall /\ [][NextInstall]_vars

InitRace ==
  /\ pc = "idle"
  /\ caller = "operators"
  /\ argc1 = FALSE
  /\ gaArg = PyStr(<<"1", "2">>)
  /\ InitLocal
  /\ InitCloud

NextRace ==
  \E p \in Racers :
     RaceStart(p) \/ RaceList(p) \/ RaceDeleteNext(p) \/ RaceCreate(p) \/ RaceSleep(p)

\* two operators run the scheduled-query installer concurrently
SpecRace == InitRace /\ [][NextRace]_vars

----------------------------------------------------------------------------
(* Properties *)

Enable == "enable_services"
Grant == "add_roles_to_service_account"
Query == "deploy_scheduled_materialize_query"
Procedure == "deploy_p75_procedure"
Alerter == "deploy_cloudrun_alerter"
Trigger == "create_cloudrun_trigger"

Invoked(fn) == \E i \in DOMAIN stages : stages[i] = fn
NumberOf(api) == Cardinality({i \in DOMAIN calls : calls[i].api = api})
Read(field) == args[field].k # "unread"
GA4Message == "Only GA4 properties are supported at this time."
UsageMessage == "argument -g/--ga-property: invalid int value"
MustProvideMessage == "You must provide a service account"
NoProjectMessage == "KeyError: GOOGLE_CLOUD_PROJECT"

\* the property id of the run, once the run has it: what was typed at the
\* prompt, else what was given to -g
HasProperty == args.ga_property.k = "str" \/ gaArg # PyNone
PropertyText == IF args.ga_property.k = "str" THEN args.ga_property.v ELSE gaArg.v

\* C1: a run whose GA property id is not all digits issues no remote call, and
\* it ends in the validation error (unless no project was found before that)
C1_NonDigitPropertyFailsBeforeAnyCall ==
  (HasProperty /\ ~IsDigit(PropertyText)) =>
     /\ calls = <<>>
     /\ pc # "done"
     /\ pc = "aborted" => errMsg \in {GA4Message, UsageMessage, NoProjectMessage}

SameTwice(fn) ==
  /\ caller = "harness" /\ pc = "idle" /\ stages = <<fn>>
  /\ prev = [fn |-> fn, region |-> TheRegion,
             sa |-> Format(args.iam_service_account), ok |-> TRUE]

C3_AllDeletedBeforeCreate ==
  /\ (pc = "sq_delete" /\ pending = <<>>) => Named(DisplayName, TheRegion) = {}
  /\ pc = "sq_sleep" => Cardinality(Named(DisplayName, TheRegion)) = 1

C3_Witness ==
  /\ pc = "sq_sleep"
  /\ NumberOf("bigquerydatatransfer.deleteTransferConfig") >= 2

\* C4: with email alerting disabled, none of the stored procedure, the
\* notification service and the trigger is invoked, and the run ends with status 0
C4_NoAlertStagesWhenDisabled ==
  args.email_alert = PyBool(FALSE) =>
     /\ ~Invoked(Procedure) /\ ~Invoked(Alerter) /\ ~Invoked(Trigger)
     /\ pc = "done" /\ exitStatus = 0

C4_Witness == args.email_alert = PyBool(FALSE) /\ pc = "done" /\ Invoked(Query)

\* C5: with alerting enabled and an empty email server, neither the notification
\* service nor the trigger is invoked
C5_NoServiceWithoutServer ==
  (args.email_alert = PyBool(TRUE) /\ Read("email_server") /\ Falsy(args.email_server)) =>
     ~Invoked(Alerter) /\ ~Invoked(Trigger)

C5_Witness ==
  /\ args.email_alert = PyBool(TRUE) /\ Read("email_server") /\ Falsy(args.email_server)
  /\ pc = "done" /\ Invoked(Procedure)

\* the stages of the pipeline among the functions invoked, in order
IsStage(fn) == fn \in {Enable, Grant, Query, Procedure, Alerter, Trigger}
Pipeline == SelectSeq(stages, IsStage)
InOrder(rank) ==
  LET p == Pipeline
  IN  \A i \in 1..(Len(p) - 1) : rank[p[i]] < rank[p[i + 1]]

\* every remote call was issued by the function invoked last
StageOf(api) ==
  CASE api \in {"cloudresourcemanager.projects.get", "serviceusage.batchEnableServices"} -> Enable
    [] api = "compute.regions.list" -> "get_gcp_regions"
    [] api = "iam.serviceAccounts.list" -> "get_default_service_account_email"
    [] api \in {"iam.roles.list", "iam.roles.create", "cloudresourcemanager.getIamPolicy",
                "cloudresourcemanager.setIamPolicy"} -> Grant
    [] api \in {"bigquerydatatransfer.listTransferConfigs",
                "bigquerydatatransfer.deleteTransferConfig",
                "bigquerydatatransfer.createTransferConfig"} -> Query
    [] api = "bigquery.query" -> Procedure
    [] api = "gcloud.run.deploy" -> Alerter
    [] api \in {"eventarc.deleteTrigger", "eventarc.createTrigger"} -> Trigger
OneAtATime ==
  \A i \in DOMAIN calls :
     /\ calls[i].at \in DOMAIN stages
     /\ stages[calls[i].at] = StageOf(calls[i].api)
     /\ i > 1 => calls[i - 1].at <= calls[i].at

SpecOrder == [f \in {Enable, Grant, Query, Procedure, Alerter, Trigger} |->
                CASE f = Enable -> 1 [] f = Query -> 2 [] f = Grant -> 3
                  [] f = Procedure -> 4 [] f = Alerter -> 5 [] f = Trigger -> 6]
CodeOrder == [f \in {Enable, Grant, Query, Procedure, Alerter, Trigger} |->
                CASE f = Enable -> 1 [] f = Grant -> 2 [] f = Query -> 3
                  [] f = Procedure -> 4 [] f = Alerter -> 5 [] f = Trigger -> 6]

\* C6, as claimed: the stages run in the order enable, scheduled query,
\* permission grant, stored procedure, notification service, trigger, one at a time
C6_OrderAsClaimed == InOrder(SpecOrder) /\ OneAtATime

\* C6, amended: the stages run in the order enable, permission grant, scheduled
\* query, stored procedure, notification service, trigger, one at a time, and
\* the stages after the scheduled query run only after it was invoked
C6_OrderOfTheCode ==
  /\ InOrder(CodeOrder)
  /\ OneAtATime
  /\ \A fn \in {Grant, Query} : Invoked(fn) => Invoked(Enable)
  /\ \A fn \in {Procedure, Alerter, Trigger} : Invoked(fn) => Invoked(Query)

C6_Witness ==
  /\ pc = "done"
  /\ \A fn \in {Enable, Grant, Query, Procedure, Alerter, Trigger} : Invoked(fn)

\* C7: a remote call that fails is the last thing the run does: the run is
\* aborted with a non-zero exit status, and nothing was invoked or issued after it
C7_FailFast ==
  /\ \A i \in DOMAIN calls :
       ~calls[i].ok =>
          /\ i = Len(calls)
          /\ calls[i].at = Len(stages)
          /\ pc = "aborted"
  /\ pc = "aborted" => exitStatus > 0
  /\ exitStatus > 0 => pc = "aborted"

C7_Witness ==
  /\ pc = "aborted"
  /\ calls # <<>>
  /\ calls[Len(calls)] = [api |-> "gcloud.run.deploy", ok |-> FALSE, at |-> Len(stages)]
  /\ ~Invoked(Trigger)

\* the ways a run comes by its service account
FellBack == userSA = PyStr(<<>>)
Typed == userSA.k = "str" /\ userSA.v # <<>>
GivenByFlag == args.iam_service_account = PyStr(FlagSA)

\* C8: the role is granted exactly in the runs that fall back to the default
\* account; a run whose user supplies an account (by -i or at the prompt) is not
\* aborted for it and goes on to the scheduled query without a grant
C8_GrantOnlyOnFallback ==
  /\ Invoked(Grant) <=> FellBack
  /\ GivenByFlag => Invoked(Query) /\ ~Invoked(Grant)
  /\ Typed => Invoked(Query) /\ ~Invoked(Grant) /\ errMsg # MustProvideMessage

\* C9: deploy_cloudrun_alerter is invoked only with all of email_user,
\* email_password, email_from and alert_recipients non-empty
C9_EmailFieldsResolved ==
  Invoked(Alerter) =>
     \A f \in {"email_user", "email_password", "email_from", "alert_recipients"} :
        Read(f) /\ ~Falsy(args[f])

\* C10: deploy_scheduled_materialize_query (and so every later stage) is invoked
\* only with a non-empty region
C10_RegionNonEmpty ==
  Invoked(Query) => Read("region") /\ TheRegion # <<>>

\* a value the user supplied: argparse and input() hand over a non-empty str, the
\* defaults and the fallbacks of the code are int and float
FromUser(x) == x.k = "str" /\ x.v # <<>>

\* C11: when the notification service is deployed and the user supplied no LCP
\* threshold, the service is configured with GOOD_LCP = 2500; likewise GOOD_FID
\* is 100 and GOOD_CLS is 0.1 when the user supplied none
C11_DocumentedDefaults ==
  service.deployed =>
     /\ ~FromUser(args.lcp_threshold) => service.env.GOOD_LCP = <<"2500">>
     /\ ~FromUser(args.fid_threshold) => service.env.GOOD_FID = <<"100">>
     /\ ~FromUser(args.cls_threshold) => service.env.GOOD_CLS = <<"0.1">>

\* C12: when the notifications directory is missing the run is aborted with a
\* non-zero exit status, gcloud is not invoked and no trigger is created; gcloud
\* is invoked only after the directory was found
C12_MissingSourceAborts ==
  /\ sourceDir = "missing" =>
        /\ pc = "aborted" /\ exitStatus > 0
        /\ NumberOf("gcloud.run.deploy") = 0 /\ ~service.deployed
        /\ ~Invoked(Trigger) /\ NumberOf("eventarc.createTrigger") = 0
        /\ triggers = {}
  /\ NumberOf("gcloud.run.deploy") > 0 => sourceDir = "present"

C12_Witness == sourceDir = "missing" /\ pc = "aborted" /\ Invoked(Alerter)

\* both operators have run the installer, and the last run of each has returned
Quiet == \A p \in Racers : runs[p].started > 0 /\ runs[p].pc = "idle"

\* C13: two concurrent runs can leave two scheduled queries of the name, and a
\* run can delete the query the other has just created.  Once both have
\* returned, one or two queries of the name exist in the region, each created
\* by one of the runs and no two by the same operator: the surplus comes from
\* the interleaving alone
C13_RaceOutcomes ==
  Quiet =>
     LET left == Named(DisplayName, RaceRegion)
     IN  /\ Cardinality(left) \in {1, 2}
         /\ \A c \in left : \E p \in Racers : c.id \in runs[p].made
         /\ \A p \in Racers : Cardinality({c \in left : c.id \in runs[p].made}) <= 1

\* both races in one execution: a run removed a query the other had created, and
\* two queries of the name are left when both have returned
C13_Witness ==
  /\ Quiet
  /\ Cardinality(Named(DisplayName, RaceRegion)) = 2
  /\ \E p, q \in Racers : p # q /\ runs[p].made \cap runs[q].removed # {}

CreateCalls == {"bigquerydatatransfer.createTransferConfig", "eventarc.createTrigger"}

\* C14: when the create call of an install step fails, the run is aborted and no
\* resource of the well-known name is left in the region: what the step deleted
\* before is not restored (scheduled query and event trigger alike)
C14_FailedCreateLeavesAbsent ==
  \A i \in DOMAIN calls :
     (calls[i].api \in CreateCalls /\ ~calls[i].ok) =>
        /\ pc = "aborted" /\ exitStatus > 0 /\ i = Len(calls)
        /\ calls[i].api = "bigquerydatatransfer.createTransferConfig" =>
              Named(DisplayName, TheRegion) = {}
        /\ calls[i].api = "eventarc.createTrigger" => TheRegion \notin triggers

\* the trigger installer had left a trigger in the region; invoked again it has
\* deleted that trigger, and its create call has failed
C14_Witness ==
  /\ stages = <<Trigger>> /\ pc = "aborted"
  /\ prev.fn = Trigger /\ prev.ok /\ prev.region = TheRegion
  /\ calls = << [api |-> "eventarc.deleteTrigger", ok |-> TRUE, at |-> 1],
                [api |-> "eventarc.createTrigger", ok |-> FALSE, at |-> 1] >>
  /\ TheRegion \notin triggers

GrantCalls == {"iam.roles.list", "iam.roles.create", "cloudresourcemanager.getIamPolicy",
               "cloudresourcemanager.setIamPolicy"}
AlertCalls == {"bigquery.query", "gcloud.run.deploy", "eventarc.deleteTrigger",
               "eventarc.createTrigger"}
Issued(apis) == \E i \in DOMAIN calls : calls[i].api \in apis

Thresholds == {"lcp_threshold", "fid_threshold", "cls_threshold"}

\* C16: a run started with at least one argument issues none of the threshold
\* prompts; the thresholds parse_args returned (the values of -l, -f, -c or
\* their defaults) are never overwritten, and they are what the notification
\* service is configured with
C16_ThresholdPromptsOnlyWithoutArguments ==
  /\ [](~argc1 => asked = {})
  /\ [][~argc1 => \A t \in Thresholds : Read(t) => args'[t] = args[t]]_vars
  /\ [](~argc1 /\ service.deployed =>
          /\ service.env.GOOD_LCP = Format(args.lcp_threshold)
          /\ service.env.GOOD_FID = Format(args.fid_threshold)
          /\ service.env.GOOD_CLS = Format(args.cls_threshold))

\* the custom roles of the project whose name ends with the role id
Deployers(roles) == {r \in roles : EndsWith(r, RoleId)}

\* C17: add_roles_to_service_account issues roles.create only when no role of
\* the project ends with 'cwv_in_ga4_deployer'; a role that does is the one it
\* goes on to bind; and over any number of invocations a role is created only
\* when there was none, so at most once
C17_RoleCreatedOnlyWhenAbsent ==
  /\ [](pc = "roles_create" => Deployers(iamRoles) = {})
  /\ [](pc \in {"policy_get", "policy_set"} => role \in Deployers(iamRoles))
  /\ [][iamRoles' # iamRoles =>
          Deployers(iamRoles) = {} /\ iamRoles' = iamRoles \cup {RoleName}]_vars

\* the role made by the first invocation is found and bound by the second,
\* which issues no create
C17_Witness ==
  /\ SameTwice(Grant)
  /\ role = RoleName /\ RoleName \in iamRoles
  /\ NumberOf("iam.roles.list") = 1 /\ NumberOf("iam.roles.create") = 0

\* the entries of a policy that bind a role of the solution to the account
EntriesFor(pol, account) ==
  {i \in DOMAIN pol : /\ EndsWith(pol[i].role, RoleId)
                      /\ pol[i].members = <<"serviceAccount:">> \o account}

\* C18: the policy add_roles_to_service_account has written with setIamPolicy
\* holds at most one entry that binds the role to the service account, however
\* often the installer has run
C18_OneBindingEntry ==
  (stages = <<Grant>> /\ pc = "idle") =>
     /\ bindings = policy
     /\ Cardinality(EntriesFor(policy, Format(args.iam_service_account))) <= 1

\* C19: the permission grant, the scheduled query and the trigger are reached
\* only with a non-empty service account; a run that has none (no -i, none from
\* the credentials or the lookup, nothing typed) is aborted before them
C19_AccountNonEmpty ==
  (Invoked(Grant) \/ Invoked(Query) \/ Invoked(Trigger)) =>
     Read("iam_service_account") /\ ~Falsy(args.iam_service_account)

\* what delete_scheduled_query is to remove from a set of configs
ToDelete(original, display, region) ==
  {c \in original : c.region = region /\ c.source = "scheduled_query" /\ c.display = display}

\* C20: delete_scheduled_query never touches a config of another display name,
\* of another region or of another data source, and when its loop is over the
\* configs of the project are those it started with minus exactly the scheduled
\* queries of the region that carry the display name
C20_DeleteFrame ==
  /\ Bystanders \subseteq configs
  /\ (pc = "sq_delete" /\ pending = <<>>) =>
        \E k \in 0..MaxPre :
           LET original == Bystanders \cup Earlier(k)
           IN  configs = original \ ToDelete(original, DisplayName, TheRegion)

C20_Witness ==
  /\ pc = "sq_delete" /\ pending = <<>>
  /\ TheRegion = US
  /\ NumberOf("bigquerydatatransfer.deleteTransferConfig") >= 1
  /\ configs = Bystanders

====
